---- MODULE Spec2Model ----
(***************************************************************************)
(* The task scheduler of the ISeKaiZ bot (src/bot/task_manager.py): the    *)
(* pending queue with per-category admission limits, the execution cycle   *)
(* of check_and_execute/_execute_next (sort, aging, pop, the two expiry    *)
(* checks, the pacing wait, the jitter wait, the action, the completion    *)
(* callback and the retry path), clear and remove_by_type.                 *)
(*                                                                         *)
(* Time is counted in units of 1000 ms.  Where the code compares against   *)
(* last + gap + bias / 2 (a float), the model compares doubled times, so   *)
(* the half unit is exact.                                                 *)
(***************************************************************************)
EXTENDS Integers, Sequences, FiniteSets, TLC

VARIABLES
    queue,            \* TaskManager._queue: sequence of task records
    counter,          \* TaskManager._task_type_counter: dict tag -> int
    last_execute_at,  \* TaskManager._last_execute_at
    locked,           \* TaskManager._lock.locked()
    running,          \* TaskManager._running
    cycles,           \* the check_and_execute coroutines suspended inside
                      \* _execute_next: each one's position and locals
    now,              \* time.time(), in model units
    nextId,           \* identity of the next Task object created
    ev,               \* history: the last operation (see Event)
    loop,             \* Controller._check_loop: its position and locals
    current_state,    \* Controller._current_state
    player_state,     \* Controller.player.state
    profession,       \* Controller.config.profession
    timers,           \* Controller._timers: dict key -> timer task (0: no entry)
    waits,            \* the timer tasks in flight: created, neither canceled
                      \* nor past their sleep; each one's key and due time
    fired,            \* history: per key, the time its timer last fired
    em_state,         \* BotEventManager._current_state
    listeners,        \* BotEventManager._listeners: state -> callbacks
    emits,            \* the emit tasks created by update_state, not yet run
    emitting,         \* the emit coroutine that is running: its locals
    calls,            \* the calls made to the Controller from outside
    requested         \* history: the state the last update_state call made
                      \* from outside asked for

\* the variables of the TaskManager, and those of its surroundings
tmvars == <<queue, counter, last_execute_at, locked, running, cycles, now, nextId, ev>>
ctlvars == <<current_state, player_state, profession, timers, waits, fired,
             em_state, listeners, emits, emitting, calls, requested>>
outer == <<loop, ctlvars>>
vars == <<tmvars, outer>>

----------------------------------------------------------------------------
(* Bounds of the model *)

MaxTasks == 3
MaxTicks == 3
\* the Task objects that exist at a time where tasks arrive for ever
MaxLive == 2

(* Program constants, in model time units (1 unit = 1000 ms) *)

TaskGap == 2
TaskBias == 3
RetryCount == 2

\* _last_execute_at starts at 0 while time.time() is an epoch time: the clock
\* starts well past 0 + gap + bias.
StartTime == TaskGap + TaskBias
MaxTime == StartTime + MaxTicks


\* The categories the model draws tasks from
Tags == {"Inventory", "NewBattle"}

\* The expiry times a task is created with: one within the model's horizon
\* (the task expires while it waits) and one that no actual or projected
\* time of the model reaches.  Callers give each category its own window;
\* the category of least rank, which a cycle pops first, gets both.
Soon == StartTime + 1
Far == MaxTime + TaskGap + TaskBias
ExpireTimes(tag) == IF tag = "Inventory" THEN {Soon, Far} ELSE {Far}

\* The values random.randint(0, bias) is drawn from in the model
Jitters == {0, TaskBias}

----------------------------------------------------------------------------
(* Task settings *)

get_default_rank(tag) ==
    CASE tag = "Command" -> 0 - 998
      [] tag = "Inventory" -> 1
      [] tag = "NewBattle" -> 3
      [] tag = "NewBattleWindow" -> 4
      [] tag = "NewProfessionWindow" -> 4
      [] tag = "Verify" -> 0 - 999
      [] OTHER -> 5

get_task_limit(tag) ==
    CASE tag = "Command" -> 999
      [] tag = "Inventory" -> 2
      [] tag = "NewBattle" -> 1
      [] tag = "NewBattleWindow" -> 1
      [] tag = "NewProfessionWindow" -> 1
      [] tag = "Verify" -> 999
      [] OTHER -> 1

\* A Task object: its fields, its identity (id) and, as history, the number
\* of times its func has been invoked (calls)
NoTask == [id |-> 0, tag |-> "none", rank |-> 0, expire_at |-> 0, retry |-> 0, calls |-> 0]

NewTask(id, tag, expire_at) ==
    [id |-> id, tag |-> tag, rank |-> get_default_rank(tag),
     expire_at |-> expire_at, retry |-> 0, calls |-> 0]

\* an expiry check that never fires
is_expired_Never(task, time2) == FALSE

\* Task.is_expired, with the time to compare against given doubled
is_expired(task, time2) == 2 * task.expire_at < time2

\* Task.__lt__
task_lt(a, b) == a.rank < b.rank

----------------------------------------------------------------------------
(* The dict _task_type_counter.  The code reads it only through            *)
(* .get(tag, 0) (add_task) and max(0, .get(tag, 1) - 1) (the pop), so a key *)
(* that is absent behaves in both as a key that holds 0: the dict is a      *)
(* function on all the tags, and the empty dict is the function that is 0.  *)

CounterGet(cnt, tag) == cnt[tag]

CounterSet(cnt, tag, v) == [cnt EXCEPT ![tag] = v]

EmptyDict == [t \in Tags |-> 0]

Max(a, b) == IF a >= b THEN a ELSE b

\* number of tasks of a category in a queue
CountTag(q, tag) == Cardinality({i \in DOMAIN q : q[i].tag = tag})

QueueIds(q) == {q[i].id : i \in DOMAIN q}

----------------------------------------------------------------------------
(* add_task: the queue, the counters and the value returned *)

\* add_task with the limit test off by one (> for >=)
add_task_OffByOne(q, cnt, task) ==
    LET current_count == CounterGet(cnt, task.tag) IN
    IF current_count > get_task_limit(task.tag)
    THEN [queue |-> q, counter |-> cnt, ret |-> FALSE]
    ELSE [queue |-> Append(q, task),
          counter |-> CounterSet(cnt, task.tag, current_count + 1),
          ret |-> TRUE]

add_task(q, cnt, task) ==
    LET current_count == CounterGet(cnt, task.tag) IN
    IF current_count >= get_task_limit(task.tag)
    THEN [queue |-> q, counter |-> cnt, ret |-> FALSE]
    ELSE [queue |-> Append(q, task),
          counter |-> CounterSet(cnt, task.tag, current_count + 1),
          ret |-> TRUE]

\* an aging that leaves the ranks alone
_priority_aging_None(q) == q

\* _priority_aging
_priority_aging(q) == [i \in DOMAIN q |-> [q[i] EXCEPT !.rank = @ - 1]]

\* a sort that puts a task in front of the tasks of its own rank
RECURSIVE InsertSorted_Unstable(_, _)
InsertSorted_Unstable(s, t) ==
    IF s = <<>> THEN <<t>>
    ELSE IF ~task_lt(Head(s), t) THEN <<t>> \o s
    ELSE <<Head(s)>> \o InsertSorted_Unstable(Tail(s), t)

\* list.sort(): stable, by Task.__lt__ alone
RECURSIVE InsertSorted(_, _)
InsertSorted(s, t) ==
    IF s = <<>> THEN <<t>>
    ELSE IF task_lt(t, Head(s)) THEN <<t>> \o s
    ELSE <<Head(s)>> \o InsertSorted(Tail(s), t)

\* _execute_next without its sort
SortQueue_Skipped(q) == q

RECURSIVE SortQueue(_)
SortQueue(q) ==
    IF q = <<>> THEN <<>>
    ELSE InsertSorted(SortQueue(SubSeq(q, 1, Len(q) - 1)), q[Len(q)])

\* the pop without its counter update
PopCounter_Forgotten(cnt, tag) == cnt

\* the counter update made when a task is popped
PopCounter(cnt, tag) == CounterSet(cnt, tag, Max(0, CounterGet(cnt, tag) - 1))

\* a projected execution time that lies in the past of every task
expected_execute_time2_Past(last) == 0

\* the projected execution time, doubled: 2 * (last + gap + bias / 2)
expected_execute_time2(last) == 2 * last + 2 * TaskGap + TaskBias

\* a selection that ends the cycle when the task it pops is expired (break
\* for continue)
SelectNext_OneShot(q, cnt, time_now, last) ==
    IF q = <<>>
    THEN [queue |-> q, counter |-> cnt, found |-> FALSE, task |-> NoTask, dropped |-> {}]
    ELSE LET s == _priority_aging(SortQueue(q))
             task == Head(s)
             cnt2 == PopCounter(cnt, task.tag)
         IN IF is_expired(task, 2 * time_now)
               \/ is_expired(task, expected_execute_time2(last))
            THEN [queue |-> Tail(s), counter |-> cnt2, found |-> FALSE,
                  task |-> NoTask, dropped |-> {task.id}]
            ELSE [queue |-> Tail(s), counter |-> cnt2, found |-> TRUE,
                  task |-> task, dropped |-> {}]

\* The synchronous part of _execute_next's while loop: sort, age, pop, and
\* the two expiry checks, repeated until a task passes them or the queue is
\* empty.  time.time() does not advance within it.
RECURSIVE SelectNext(_, _, _, _)
SelectNext(q, cnt, time_now, last) ==
    IF q = <<>>
    THEN [queue |-> q, counter |-> cnt, found |-> FALSE, task |-> NoTask, dropped |-> {}]
    ELSE LET s == _priority_aging(SortQueue(q))
             task == Head(s)
             rest == Tail(s)
             cnt2 == PopCounter(cnt, task.tag)
         IN IF is_expired(task, 2 * time_now)
               \/ is_expired(task, expected_execute_time2(last))
            THEN LET r == SelectNext(rest, cnt2, time_now, last)
                 IN [r EXCEPT !.dropped = @ \cup {task.id}]
            ELSE [queue |-> rest, counter |-> cnt2, found |-> TRUE,
                  task |-> task, dropped |-> {}]

\* no pacing wait
gap_delay_None(time_now, last) == 0

\* the pacing wait computed at selection (0: no wait)
gap_delay(time_now, last) ==
    IF time_now - last < TaskGap THEN TaskGap - (time_now - last) ELSE 0

\* a retry that appends the task without asking add_task
retry_task_Unchecked(q, cnt, task) ==
    IF task.retry < RetryCount
    THEN [queue |-> Append(q, [task EXCEPT !.retry = @ + 1]),
          counter |-> CounterSet(cnt, task.tag, CounterGet(cnt, task.tag) + 1),
          ret |-> TRUE]
    ELSE [queue |-> q, counter |-> cnt, ret |-> FALSE]

\* a retry that ages the task it re-admits
retry_task_Aged(q, cnt, task) ==
    IF task.retry < RetryCount
    THEN add_task(q, cnt, [task EXCEPT !.retry = @ + 1, !.rank = @ - 1])
    ELSE [queue |-> q, counter |-> cnt, ret |-> FALSE]

\* a retry that re-admits the task without counting the attempt
retry_task_Uncounted(q, cnt, task) ==
    IF task.retry < RetryCount
    THEN add_task(q, cnt, task)
    ELSE [queue |-> q, counter |-> cnt, ret |-> FALSE]

\* a retry that gives the task up when nothing else is pending
retry_task_UnlessEmptied(q, cnt, task) ==
    IF task.retry < RetryCount /\ q # <<>>
    THEN add_task(q, cnt, [task EXCEPT !.retry = @ + 1])
    ELSE [queue |-> q, counter |-> cnt, ret |-> FALSE]

\* a retry test that admits one attempt too many (<= for <)
retry_task_OneMore(q, cnt, task) ==
    IF task.retry <= RetryCount
    THEN add_task(q, cnt, [task EXCEPT !.retry = @ + 1])
    ELSE [queue |-> q, counter |-> cnt, ret |-> FALSE]

\* the except branch of _execute_next: retry while attempts remain
retry_task(q, cnt, task) ==
    IF task.retry < RetryCount
    THEN add_task(q, cnt, [task EXCEPT !.retry = @ + 1])
    ELSE [queue |-> q, counter |-> cnt, ret |-> FALSE]

----------------------------------------------------------------------------
(* Coroutine frames of check_and_execute *)

Frame(pc, task, wake) == [pc |-> pc, task |-> task, wake |-> wake]

\* What the last operation reported: op names it ("none" for the clock);
\* ret is what add_task returned (called from outside or by the retry path);
\* n is the number of tasks a cycle's selection discarded, the number
\* remove_by_type returned or, for a finished action, the number of times
\* that task's func has been invoked; d is the amount by which the step
\* advanced _last_execute_at.
Event(op, ret, n, d) == [op |-> op, ret |-> ret, n |-> n, d |-> d]

----------------------------------------------------------------------------
(* Controller and BotEventManager: constants and initial state *)

\* BotState
BotStates == {"init", "running", "defeated", "blocked", "banned", "stopped"}

\* the states whose handler ends the session
TerminalStates == {"defeated", "banned", "stopped"}

\* the states listeners are added to after setup: one whose handler does
\* nothing and one whose handler cancels the timers
HookStates == {"running", "stopped"}

\* the timer keys
Keys == {"map", "prof", "verify"}

\* ProfessionType
Professions == {"none", "mine"}

\* no emit coroutine is running
NoEmit == [state |-> "none", i |-> 0, log |-> <<>>, raised |-> 0]

\* a callback: the state it is registered for and what it is (the
\* Controller's handler for that state, or another listener)
Callback(state, kind) == <<state, kind>>

\* BotEventManager.setup(_on_init=..., ...): one handler per state
setup == [st \in BotStates |-> <<Callback(st, 0)>>]

\* Controller.__init__ and BotEventManager.__init__, for a given profession
ControllerInit(prof) ==
    /\ current_state = "none"
    /\ player_state = "stopped"
    /\ profession = prof
    /\ timers = [k \in Keys |-> 0]
    /\ waits = {}
    /\ fired = [k \in Keys |-> 0]
    /\ em_state = "none"
    /\ listeners = setup
    /\ emits = <<>>
    /\ emitting = NoEmit
    /\ calls = 0
    /\ requested = "none"

\* Controller.start() has not been called: there is no check loop
NoLoop == [pc |-> "none", wake |-> 0, fed |-> FALSE]

Init ==
    /\ queue = <<>>
    /\ counter = EmptyDict
    /\ last_execute_at = 0
    /\ locked = FALSE
    /\ running = FALSE
    /\ cycles = {}
    /\ now = StartTime
    /\ nextId = 1
    /\ ev = Event("none", FALSE, 0, 0)
    /\ loop = NoLoop
    /\ ControllerInit("none")

\* the clock advances
Tick ==
    /\ now < MaxTime
    /\ now' = now + 1
    /\ ev' = Event("none", FALSE, 0, 0)
    /\ UNCHANGED <<queue, counter, last_execute_at, locked, running, cycles, nextId>>

\* TaskManager.add_task called by an external observer with a fresh Task
AddTask(tag, expire_at) ==
    /\ nextId <= MaxTasks
    /\ LET r == add_task(queue, counter, NewTask(nextId, tag, expire_at)) IN
       /\ queue' = r.queue
       /\ counter' = r.counter
       /\ ev' = Event("add", r.ret, 0, 0)
    /\ nextId' = nextId + 1
    /\ UNCHANGED <<last_execute_at, locked, running, cycles, now>>

\* clear without the reset of the counters
clear_counter_Kept(cnt) == cnt

\* self._task_type_counter.clear()
clear_counter(cnt) == [t \in DOMAIN cnt |-> 0]

\* TaskManager.clear; ev.n holds the number of tasks it dropped
Clear ==
    /\ queue' = <<>>
    /\ counter' = clear_counter(counter)
    /\ ev' = Event("clear", FALSE, Len(queue), 0)
    /\ UNCHANGED <<last_execute_at, locked, running, cycles, now, nextId>>

\* remove_by_type with the filter inverted
remove_by_type_Others(q, task_type) == SelectSeq(q, LAMBDA t : t.tag = task_type)

\* self._queue = [t for t in self._queue if t.tag != task_type]
remove_by_type(q, task_type) == SelectSeq(q, LAMBDA t : t.tag # task_type)

\* remove_by_type's return value: initial_count - len(self._queue)
removed_count(q, task_type) == Len(q) - Len(remove_by_type(q, task_type))

\* TaskManager.remove_by_type; ev.n holds the number it returns
RemoveByType(task_type) ==
    /\ queue' = remove_by_type(queue, task_type)
    /\ counter' = CounterSet(counter, task_type, 0)
    /\ ev' = Event("remove", FALSE, removed_count(queue, task_type), 0)
    /\ UNCHANGED <<last_execute_at, locked, running, cycles, now, nextId>>

\* check_and_execute without its test of the lock
lock_is_held_Unchecked(l) == FALSE

\* asyncio.Lock.locked(), as check_and_execute reads it
lock_is_held(l) == l

\* _delay(0, bias) and what follows it: with a jitter j > 0 the coroutine
\* sleeps, with j = 0 it goes straight on to await task.func().  others are
\* the other suspended coroutines, n the number of tasks the step dropped.
AfterPacing(others, task, j, n) ==
    IF j > 0
    THEN /\ cycles' = others \cup {Frame("bias", task, now + j)}
         /\ ev' = Event("select", FALSE, n, 0)
    ELSE /\ cycles' = others \cup {Frame("action", [task EXCEPT !.calls = @ + 1], 0)}
         /\ ev' = Event("select", FALSE, n, 0)

\* check_and_execute, from the call to its first suspension (or its return)
CheckAndExecute ==
    IF lock_is_held(locked)
    THEN /\ ev' = Event("busy", FALSE, 0, 0)
         /\ UNCHANGED <<queue, counter, last_execute_at, locked, running, cycles,
                        now, nextId>>
    ELSE LET r == SelectNext(queue, counter, now, last_execute_at)
             d == gap_delay(now, last_execute_at)
             n == Cardinality(r.dropped)
         IN /\ queue' = r.queue
            /\ counter' = r.counter
            /\ UNCHANGED <<last_execute_at, now, nextId>>
            /\ IF ~r.found
               THEN /\ locked' = FALSE
                    /\ running' = FALSE
                    /\ ev' = Event("empty", FALSE, n, 0)
                    /\ UNCHANGED cycles
               ELSE /\ locked' = TRUE
                    /\ running' = TRUE
                    /\ IF d > 0
                       THEN /\ cycles' = cycles \cup {Frame("gap", r.task, now + d)}
                            /\ ev' = Event("select", FALSE, n, 0)
                       ELSE \E j \in Jitters : AfterPacing(cycles, r.task, j, n)

\* asyncio.sleep(gap_delay / 1000) returns
GapWake(f) ==
    /\ f.pc = "gap"
    /\ now >= f.wake
    /\ \E j \in Jitters : AfterPacing(cycles \ {f}, f.task, j, 0)
    /\ UNCHANGED <<queue, counter, last_execute_at, locked, running, now, nextId>>

\* the jitter sleep of _delay returns: await task.func()
BiasWake(f) ==
    /\ f.pc = "bias"
    /\ now >= f.wake
    /\ AfterPacing(cycles \ {f}, f.task, 0, 0)
    /\ UNCHANGED <<queue, counter, last_execute_at, locked, running, now, nextId>>

Outcomes == {"ok", "callback_raises", "func_raises"}

\* the while loop of _execute_next without its break: the call goes on to
\* another invocation
break_loop_Missing(cs, f) == (cs \ {f}) \cup {Frame("action", [f.task EXCEPT !.calls = @ + 1], 0)}

\* "Only execute one task per call": the break that ends the while loop, and
\* with it the call; cs are the suspended calls, f the one that has finished
break_loop(cs, f) == cs \ {f}

\* task.func() returns or raises; the completion callback returns or raises;
\* the except branch; the finally of check_and_execute and the lock's release
ActionDone(f, outcome) ==
    /\ f.pc = "action"
    /\ LET r == IF outcome = "ok"
                THEN [queue |-> queue, counter |-> counter, ret |-> FALSE]
                ELSE retry_task(queue, counter, f.task)
       IN /\ queue' = r.queue
          /\ counter' = r.counter
          /\ last_execute_at' = IF outcome = "func_raises" THEN last_execute_at ELSE now
          /\ ev' = Event(outcome, r.ret, f.task.calls, last_execute_at' - last_execute_at)
    /\ cycles' = break_loop(cycles, f)
    /\ locked' = FALSE
    /\ running' = FALSE
    /\ UNCHANGED <<now, nextId>>

\* The TaskManager on its own: its methods are called at any time, in any
\* order, and the clock advances freely.
Next ==
    \/ Tick /\ UNCHANGED outer
    \/ \E tag \in Tags : \E expire_at \in ExpireTimes(tag) :
          AddTask(tag, expire_at) /\ UNCHANGED outer
    \/ Clear /\ UNCHANGED outer
    \/ \E tag \in Tags : RemoveByType(tag) /\ UNCHANGED outer
    \/ CheckAndExecute /\ UNCHANGED outer
    \/ \E f \in cycles : GapWake(f) /\ UNCHANGED outer
    \/ \E f \in cycles : BiasWake(f) /\ UNCHANGED outer
    \/ \E f \in cycles, o \in Outcomes : ActionDone(f, o) /\ UNCHANGED outer

Spec == Init /\ [][Next]_vars

----------------------------------------------------------------------------
(* The TaskManager whose calls can be canceled                              *)
(*                                                                          *)
(* The asyncio task that runs check_and_execute can be canceled while the   *)
(* call is suspended (Controller.stop cancels the check task).  The         *)
(* CancelledError is raised at the await the call is suspended in; it is a  *)
(* BaseException, so the except Exception of _execute_next lets it pass.    *)

\* an unwinding that happens only when the call is left from the action
unwinds_on_cancel_ActionOnly(pc) == pc = "action"

\* whether a call left by CancelledError at position pc runs the finally of
\* check_and_execute and the __aexit__ of its lock: both enclose every await
\* of the call
unwinds_on_cancel(pc) == TRUE

\* the call suspended at f is canceled: the task it holds is not re-admitted
CancelCycle(f) ==
    /\ f.pc \in {"gap", "bias", "action"}
    /\ cycles' = cycles \ {f}
    /\ locked' = IF unwinds_on_cancel(f.pc) THEN FALSE ELSE locked
    /\ running' = IF unwinds_on_cancel(f.pc) THEN FALSE ELSE running
    /\ ev' = Event("canceled", FALSE, 0, 0)
    /\ UNCHANGED <<queue, counter, last_execute_at, now, nextId>>

CancelNext ==
    \/ Next
    \/ \E f \in cycles : CancelCycle(f) /\ UNCHANGED outer

CancelSpec == Init /\ [][CancelNext]_vars

----------------------------------------------------------------------------
(* The TaskManager driven by the Controller's check loop                    *)
(*                                                                          *)
(* Here check_and_execute is called by _check_loop alone, sleeps return     *)
(* when they are due, and tasks keep arriving for ever.  So that the state  *)
(* space stays finite the clock is kept relative: now stays where it is     *)
(* and, when a unit of time passes, _last_execute_at and the wake-up times  *)
(* move one unit into the past.  A stored time that reaches 0 stays there:  *)
(* it is further in the past than any comparison of the code can tell       *)
(* (now >= gap + bias).  A task's expire_at is not moved: a task is either  *)
(* expired when it arrives (Soon) or has a window that no wait of the loop  *)
(* exhausts (Far; the callers' windows are 10 to 180 s).  Task identities   *)
(* are reused once their task is gone.                                      *)

\* a check loop that sleeps longer than the pacing allows
CheckInterval_Slow == TaskGap + TaskBias + 1

\* asyncio.sleep(1) of _check_loop, in model units
CheckInterval == 1

\* the tasks that exist: pending, or popped and held by a call
LiveIds == QueueIds(queue) \cup {f.task.id : f \in cycles}

\* the identity of the next Task object (the least one not in use)
FreshId == CHOOSE i \in (1..MaxLive) \ LiveIds : \A j \in (1..MaxLive) \ LiveIds : i <= j

\* some pending task would pass both expiry checks of _execute_next
Dispatchable(q, time_now, last) ==
    \E i \in DOMAIN q :
        /\ ~is_expired(q[i], 2 * time_now)
        /\ ~is_expired(q[i], expected_execute_time2(last))

\* one unit further into the past
ShiftTime(t) == Max(0, t - 1)

\* Controller.start(): the loop is about to make its first call
LoopInit ==
    /\ queue = <<>>
    /\ counter = EmptyDict
    /\ last_execute_at = 0
    /\ locked = FALSE
    /\ running = FALSE
    /\ cycles = {}
    /\ now = MaxTime
    /\ nextId = 1
    /\ ev = Event("none", FALSE, 0, 0)
    /\ loop = [pc |-> "call", wake |-> 0, fed |-> FALSE]
    /\ ControllerInit("none")

\* a unit of time passes; no sleep that is due is kept waiting.  loop.fed
\* records that, since the last completed dispatch, the queue has held a
\* dispatchable task whenever no call was in progress and no action failed.
LoopTick ==
    /\ loop.pc # "call"
    /\ loop.pc = "sleep" => loop.wake > now
    /\ \A f \in cycles : f.pc \in {"gap", "bias"} => f.wake > now
    /\ cycles' = {[f EXCEPT !.wake = ShiftTime(@)] : f \in cycles}
    /\ last_execute_at' = ShiftTime(last_execute_at)
    /\ ev' = Event("none", FALSE, 0, 0)
    /\ loop' = [loop EXCEPT !.wake = ShiftTime(@),
                            !.fed = @ /\ (cycles # {} \/ Dispatchable(queue, now, last_execute_at'))]
    /\ UNCHANGED <<queue, counter, locked, running, now, nextId, ctlvars>>

\* add_task called by a cog or a timer with a fresh Task
LoopAddTask(tag, expire_at) ==
    /\ LiveIds # 1..MaxLive
    /\ LET r == add_task(queue, counter, NewTask(FreshId, tag, expire_at)) IN
       /\ queue' = r.queue
       /\ counter' = r.counter
       /\ ev' = Event("add", r.ret, 0, 0)
    /\ UNCHANGED <<last_execute_at, locked, running, cycles, now, nextId, loop, ctlvars>>

\* _check_loop: (the sleep returns and) the loop awaits check_and_execute
LoopCall ==
    /\ loop.pc = "call" \/ (loop.pc = "sleep" /\ now >= loop.wake)
    /\ CheckAndExecute
    /\ loop' = IF cycles' = {}
               THEN [pc |-> "sleep", wake |-> now + CheckInterval, fed |-> FALSE]
               ELSE [pc |-> "await", wake |-> 0, fed |-> loop.fed]
    /\ UNCHANGED ctlvars

\* the call the loop awaits goes on after its gap sleep
LoopGapWake(f) == GapWake(f) /\ UNCHANGED <<loop, ctlvars>>

\* the call the loop awaits goes on after its jitter sleep
LoopBiasWake(f) == BiasWake(f) /\ UNCHANGED <<loop, ctlvars>>

\* a check loop that a failure inside a call ends
check_loop_resumes_OnSuccess(outcome) == outcome = "ok"

\* whether _check_loop goes on after a call with the given outcome: a
\* failing func or callback is caught by the except Exception of
\* _execute_next, so the call returns and the loop sleeps; an Exception
\* that reached the loop would be caught by its own except Exception,
\* which sleeps as well
check_loop_resumes(outcome) == TRUE

\* the check loop has left its while loop
LoopEnded == [pc |-> "ended", wake |-> 0, fed |-> FALSE]

\* the call the loop awaits returns: await asyncio.sleep(1)
LoopActionDone(f, outcome) ==
    /\ ActionDone(f, outcome)
    /\ loop' = IF check_loop_resumes(outcome)
               THEN [pc |-> "sleep", wake |-> now + CheckInterval,
                     fed |-> outcome = "ok" /\ Dispatchable(queue', now, last_execute_at')]
               ELSE LoopEnded
    /\ UNCHANGED ctlvars

LoopNext ==
    \/ LoopTick
    \/ \E tag \in Tags : \E expire_at \in ExpireTimes(tag) : LoopAddTask(tag, expire_at)
    \/ LoopCall
    \/ \E f \in cycles : LoopGapWake(f)
    \/ \E f \in cycles : LoopBiasWake(f)
    \/ \E f \in cycles, o \in Outcomes : LoopActionDone(f, o)

\* The event loop runs every coroutine that is ready and time goes on; every
\* action returns or raises.  Arrivals are not forced.
LoopSpec ==
    /\ LoopInit
    /\ [][LoopNext]_vars
    /\ WF_vars(LoopTick)
    /\ WF_vars(LoopCall)
    /\ WF_vars(\E f \in cycles : LoopGapWake(f))
    /\ WF_vars(\E f \in cycles : LoopBiasWake(f))
    /\ WF_vars(\E f \in cycles, o \in Outcomes : LoopActionDone(f, o))

----------------------------------------------------------------------------
(* The Controller: state changes, timers and the BotEventManager            *)
(*                                                                          *)
(* Every method below runs without suspension (the handlers and the         *)
(* recursions contain no await that yields), so each is one step; an emit   *)
(* takes one step per callback and nothing else runs before it returns.     *)
(* The methods are written as functions of a record c of the fields they    *)
(* read and write.                                                          *)

\* TIMER_INTERVAL (60 s), scaled to the model's horizon
TimerInterval == 2

\* the expiry window of _create_repeating_task (180000 ms)
RepeatWindow == 180

\* the calls the cogs and the task manager make to the Controller and to
\* the BotEventManager in one behaviour
MaxCalls == 3

\* the categories of the tasks the recursions create
TimerTags == {"NewBattleWindow", "NewProfessionWindow", "Verify"}

KeyIndex(key) == CASE key = "map" -> 1 [] key = "prof" -> 2 [] key = "verify" -> 3

\* the fields the Controller's methods read and write, and the identities
\* of the tasks the calls of the task manager hold
Ctl == [current_state |-> current_state, player_state |-> player_state,
        timers |-> timers, waits |-> waits, emits |-> emits,
        queue |-> queue, counter |-> counter,
        held |-> {f.task.id : f \in cycles}]

SetCtl(c) ==
    /\ current_state' = c.current_state
    /\ player_state' = c.player_state
    /\ timers' = c.timers
    /\ waits' = c.waits
    /\ emits' = c.emits
    /\ queue' = c.queue
    /\ counter' = c.counter

\* the timer tasks of a key the table or a wait refers to; the tasks of
\* a key are numbered apart from those of the other keys
TimerIds(c, key) == {w.id : w \in {x \in c.waits : x.key = key}} \cup {c.timers[key]}

\* asyncio.create_task: the identity of the new task
FreshTimer(c, key) ==
    CHOOSE i \in (1..(Cardinality(TimerIds(c, key)) + 1)) \ TimerIds(c, key) :
        \A j \in (1..(Cardinality(TimerIds(c, key)) + 1)) \ TimerIds(c, key) : i <= j

\* _cancel_timer that pops the entry and forgets to cancel the task
_cancel_timer_Forget(c, key) == [c EXCEPT !.timers[key] = 0]

\* Controller._cancel_timer: pop the entry and cancel its task; a canceled
\* task leaves its sleep with CancelledError and never runs the callback
_cancel_timer(c, key) ==
    [c EXCEPT !.timers[key] = 0,
              !.waits = {w \in @ : ~(w.key = key /\ w.id = c.timers[key])}]

\* self._timers[key] = asyncio.create_task(self._timer_wrapper(key, ...)):
\* the new task sleeps TIMER_INTERVAL from now
create_timer(c, key, time_now) ==
    LET id == FreshTimer(c, key) IN
    [c EXCEPT !.timers[key] = id,
              !.waits = @ \cup {[id |-> id, key |-> key, wake |-> time_now + TimerInterval]}]

\* Controller._add_timer_from_key
_add_timer_from_key(c, key, time_now) == create_timer(_cancel_timer(c, key), key, time_now)

\* Controller.refresh_timer
refresh_timer(c, key, time_now) == _add_timer_from_key(_cancel_timer(c, key), key, time_now)

\* _cancel_all_timers that clears the table only
_cancel_all_timers_ClearOnly(c) == [c EXCEPT !.timers = [k \in Keys |-> 0]]

\* Controller._cancel_all_timers
_cancel_all_timers(c) ==
    [c EXCEPT !.waits = {w \in @ : w.id # c.timers[w.key]},
              !.timers = [k \in Keys |-> 0]]

\* an add_task that restarts the timer only when the task was admitted
controller_add_task_IfAdmitted(c, task, key, time_now) ==
    LET r == add_task(c.queue, c.counter, task)
        c1 == [c EXCEPT !.queue = r.queue, !.counter = r.counter]
    IN IF key \in Keys /\ r.ret THEN _add_timer_from_key(c1, key, time_now) ELSE c1

\* Controller.add_task(task, timer_key); key "none" is timer_key=None
controller_add_task(c, task, key, time_now) ==
    LET r == add_task(c.queue, c.counter, task)
        c1 == [c EXCEPT !.queue = r.queue, !.counter = r.counter]
    IN IF key \in Keys THEN _add_timer_from_key(c1, key, time_now) ELSE c1

\* the identity of a Task object created now: the least one that neither
\* a pending task nor a task held by a call has
NewTaskId(c) ==
    LET used == QueueIds(c.queue) \cup c.held
        ids == (1..(Cardinality(used) + 1)) \ used
    IN CHOOSE i \in ids : \A j \in ids : i <= j

\* Controller._create_repeating_task
_create_repeating_task(c, tag, time_now) == NewTask(NewTaskId(c), tag, time_now + RepeatWindow)

\* a recursion that starts the next timer only when its task was admitted
recursion_IfAdmitted(c, key, tag, time_now) ==
    LET c1 == controller_add_task(_cancel_timer(c, key),
                                  _create_repeating_task(c, tag, time_now), "none", time_now)
    IN IF Len(c1.queue) > Len(c.queue) THEN create_timer(c1, key, time_now) ELSE c1

\* the body shared by _map_recursion, _prof_recursion and _verify_recursion
recursion(c, key, tag, time_now) ==
    create_timer(
        controller_add_task(_cancel_timer(c, key),
                            _create_repeating_task(c, tag, time_now), "none", time_now),
        key, time_now)

\* Controller._map_recursion
_map_recursion(c, time_now) == recursion(c, "map", "NewBattleWindow", time_now)

\* a _prof_recursion that takes every profession for "none"
prof_configured_Never(prof) == FALSE

\* self.config.profession == "none" (negated)
prof_configured(prof) == prof # "none"

\* Controller._prof_recursion
_prof_recursion(c, time_now, prof) ==
    IF prof_configured(prof)
    THEN recursion(c, "prof", "NewProfessionWindow", time_now)
    ELSE c

\* Controller._verify_recursion
_verify_recursion(c, time_now) == recursion(c, "verify", "Verify", time_now)

\* an update_state that does not compare the states
state_differs_Always(cur, new_state) == TRUE

\* self._current_state != new_state
state_differs(cur, new_state) == cur # new_state

\* Controller.update_state
update_state(c, new_state) ==
    IF state_differs(c.current_state, new_state)
    THEN [c EXCEPT !.player_state = new_state,
                   !.current_state = new_state,
                   !.emits = Append(@, new_state)]
    ELSE c

\* Controller._on_init
_on_init(c, time_now, prof) ==
    _prof_recursion(_map_recursion(update_state(c, "running"), time_now), time_now, prof)

\* Controller._on_running
_on_running(c) == c

\* Controller._on_defeat (player.reset() touches no field of the model)
_on_defeat(c) == _cancel_all_timers(c)

\* a Blocked handler that starts the "map" timer as well
_on_blocked_WithMap(c, time_now) == _verify_recursion(_map_recursion(c, time_now), time_now)

\* Controller._on_blocked
_on_blocked(c, time_now) == _verify_recursion(c, time_now)

\* a ban handler that also drops the pending tasks
_on_ban_ClearsQueue(c) ==
    [_cancel_all_timers(c) EXCEPT !.queue = <<>>, !.counter = clear_counter(c.counter)]

\* Controller._on_ban
_on_ban(c) == _cancel_all_timers(c)

\* a stop handler that leaves the timers running
_on_stopped_KeepsTimers(c) == c

\* Controller._on_stopped
_on_stopped(c) == _cancel_all_timers(c)

\* the handler the Controller registers for a state
handler(c, state, time_now, prof) ==
    CASE state = "init" -> _on_init(c, time_now, prof)
      [] state = "running" -> _on_running(c)
      [] state = "defeated" -> _on_defeat(c)
      [] state = "blocked" -> _on_blocked(c, time_now)
      [] state = "banned" -> _on_ban(c)
      [] state = "stopped" -> _on_stopped(c)

\* the part of the state the Controller's steps leave alone
CtlFrame == UNCHANGED <<last_execute_at, locked, running, cycles, nextId, loop, profession>>

\* the Controller is constructed two timer intervals before the end of the
\* clock
CtlStartTime == MaxTime - 2 * TimerInterval

\* Controller.__init__ for either kind of configuration; TaskManager.__init__
CtlInit ==
    /\ queue = <<>>
    /\ counter = [t \in Tags \cup TimerTags |-> 0]
    /\ last_execute_at = 0
    /\ locked = FALSE
    /\ running = FALSE
    /\ cycles = {}
    /\ now = CtlStartTime
    /\ nextId = 1
    /\ ev = Event("none", FALSE, 0, 0)
    /\ loop = NoLoop
    /\ \E prof \in Professions : ControllerInit(prof)

\* the clock advances (no emit is in progress: an emit takes no time)
CtlTick ==
    /\ emitting = NoEmit
    /\ Tick
    /\ UNCHANGED outer

\* a call from outside the Controller, and a step of a task it created
External == calls < MaxCalls /\ calls' = calls + 1 /\ UNCHANGED requested
Internal == UNCHANGED <<calls, requested>>

\* a call of update_state from outside the Controller
Request(new_state) == calls < MaxCalls /\ calls' = calls + 1 /\ requested' = new_state

\* Controller.update_state called by a cog; ev.ret tells whether the state
\* asked for is the current one
UpdateState(new_state) ==
    /\ Request(new_state)
    /\ emitting = NoEmit
    /\ SetCtl(update_state(Ctl, new_state))
    /\ ev' = Event("update_state", new_state = current_state, 0, 0)
    /\ UNCHANGED <<now, fired, em_state, listeners, emitting>>
    /\ CtlFrame

\* Controller.refresh_timer called by a cog
RefreshTimer(key) ==
    /\ External
    /\ emitting = NoEmit
    /\ SetCtl(refresh_timer(Ctl, key, now))
    /\ ev' = Event("refresh", FALSE, KeyIndex(key), 0)
    /\ UNCHANGED <<now, fired, em_state, listeners, emitting>>
    /\ CtlFrame

\* Controller.add_task(task, timer_key) called by a cog with a battle task
ControllerAddTask(key) ==
    /\ External
    /\ emitting = NoEmit
    /\ SetCtl(controller_add_task(Ctl, NewTask(NewTaskId(Ctl), "NewBattle", Far), key, now))
    /\ ev' = Event("add", Len(queue') > Len(queue), KeyIndex(key), 0)
    /\ UNCHANGED <<now, fired, em_state, listeners, emitting>>
    /\ CtlFrame

\* _timer_wrapper: the sleep of the timer task w has returned and it awaits
\* its callback, which runs to its end
TimerFire(w) ==
    /\ Internal
    /\ emitting = NoEmit
    /\ now >= w.wake
    /\ LET c == [Ctl EXCEPT !.waits = @ \ {w}] IN
       SetCtl(CASE w.key = "map" -> _map_recursion(c, now)
                [] w.key = "prof" -> _prof_recursion(c, now, profession)
                [] w.key = "verify" -> _verify_recursion(c, now))
    /\ fired' = [fired EXCEPT ![w.key] = now]
    /\ ev' = Event("fire", FALSE, KeyIndex(w.key), 0)
    /\ UNCHANGED <<now, em_state, listeners, emitting>>
    /\ CtlFrame

\* the listeners registered after setup, named by their position
Hook(n) == n

\* Controller.stop: the timers are canceled and the queue is cleared (the
\* check loop is not running here)
Stop ==
    /\ External
    /\ emitting = NoEmit
    /\ SetCtl([_cancel_all_timers(Ctl) EXCEPT !.queue = <<>>,
                                              !.counter = clear_counter(counter)])
    /\ ev' = Event("stop", FALSE, Len(queue), 0)
    /\ UNCHANGED <<now, fired, em_state, listeners, emitting>>
    /\ CtlFrame

\* BotEventManager.on: another listener is registered for a state
On(state) ==
    /\ External
    /\ emitting = NoEmit
    /\ listeners' = [listeners EXCEPT ![state] = Append(@, Callback(state, Hook(Len(@))))]
    /\ ev' = Event("on", FALSE, 0, 0)
    /\ UNCHANGED <<queue, counter, now, current_state, player_state, timers, waits,
                   fired, em_state, emits, emitting>>
    /\ CtlFrame

\* BotEventManager.emit, up to its loop: self._current_state = state
emit_begin(state) == [state |-> state, i |-> 1, log |-> <<>>, raised |-> 0]

\* the emit task created by update_state starts to run
EmitStart ==
    /\ Internal
    /\ emitting = NoEmit
    /\ emits # <<>>
    /\ emitting' = emit_begin(Head(emits))
    /\ em_state' = Head(emits)
    /\ emits' = Tail(emits)
    /\ ev' = Event("emit_begin", FALSE, 0, 0)
    /\ UNCHANGED <<queue, counter, now, current_state, player_state, timers, waits,
                   fired, listeners>>
    /\ CtlFrame

\* what a task's func may return: a dict whose "state" is a BotState, a
\* dict without one, or something that is not a dict
Results == BotStates \cup {"no_state", "not_dict"}

\* result.get("state"), "none" for None
result_state(result) == IF result \in BotStates THEN result ELSE "none"

\* a callback that acts on every state a result carries
state_signal_AnyState(result, cur) == result \in BotStates

\* the tests of _task_complete_callback: isinstance(result, dict), and
\* new_state and new_state != self._current_state
state_signal(result, cur) ==
    /\ result # "not_dict"
    /\ result_state(result) # "none"
    /\ result_state(result) # cur

\* Controller._task_complete_callback(result): the state is set and emit
\* is awaited in place; ev.ret tells whether the result was acted on
TaskCompleteCallback(result) ==
    /\ External
    /\ emitting = NoEmit
    /\ IF state_signal(result, current_state)
       THEN /\ current_state' = result_state(result)
            /\ emitting' = emit_begin(result_state(result))
            /\ em_state' = result_state(result)
       ELSE UNCHANGED <<current_state, emitting, em_state>>
    /\ ev' = Event("task_complete", state_signal(result, current_state), 0, 0)
    /\ UNCHANGED <<queue, counter, now, player_state, timers, waits, fired,
                   listeners, emits>>
    /\ CtlFrame

\* an emit whose try does not catch what a callback raises
callback_caught_Never(outcome) == FALSE

\* except Exception around the call of a callback
callback_caught(outcome) == TRUE

\* the callbacks setup registers are the first of their states
IsHandler(cb) == cb[2] = 0

\* what a callback may do: the Controller's handlers return, another
\* listener returns or raises an Exception
CallbackOutcomes(cb) == IF IsHandler(cb) THEN {"ok"} ELSE {"ok", "raises"}

\* one iteration of the loop of emit: the next callback is called; ev.ret
\* tells whether it raised, ev.n is its position, ev.d the number of timer
\* waits it ended
EmitCall(outcome) ==
    /\ Internal
    /\ emitting # NoEmit
    /\ emitting.i <= Len(listeners[emitting.state])
    /\ LET cb == listeners[emitting.state][emitting.i] IN
       /\ outcome \in CallbackOutcomes(cb)
       /\ IF IsHandler(cb)
          THEN SetCtl(handler(Ctl, cb[1], now, profession))
          ELSE UNCHANGED <<current_state, player_state, timers, waits, emits, queue, counter>>
       /\ IF outcome = "raises" /\ ~callback_caught(outcome)
          THEN /\ emitting' = NoEmit
               /\ ev' = Event("emit_raised", TRUE, emitting.i, 0)
          ELSE /\ emitting' = [emitting EXCEPT
                                 !.i = @ + 1,
                                 !.log = Append(@, cb),
                                 !.raised = IF outcome = "raises" /\ @ = 0
                                            THEN emitting.i ELSE @]
               /\ ev' = Event("callback", outcome = "raises", emitting.i,
                              Cardinality(waits \ waits'))
    /\ UNCHANGED <<now, fired, em_state, listeners>>
    /\ CtlFrame

\* emit returns to its caller; ev.n is the number of callbacks it called,
\* ev.d the position of the first that raised
EmitReturn ==
    /\ Internal
    /\ emitting # NoEmit
    /\ emitting.i > Len(listeners[emitting.state])
    /\ emitting' = NoEmit
    /\ ev' = Event("emit", emitting.raised > 0, Len(emitting.log), emitting.raised)
    /\ UNCHANGED <<queue, counter, now, current_state, player_state, timers, waits,
                   fired, em_state, listeners, emits>>
    /\ CtlFrame

CtlNext ==
    \/ CtlTick
    \/ \E new_state \in BotStates : UpdateState(new_state)
    \/ \E key \in Keys : RefreshTimer(key)
    \/ \E key \in Keys : ControllerAddTask(key)
    \/ \E w \in waits : TimerFire(w)
    \/ \E state \in HookStates : On(state)
    \/ EmitStart
    \/ \E result \in Results : TaskCompleteCallback(result)
    \/ \E outcome \in {"ok", "raises"} : EmitCall(outcome)
    \/ EmitReturn
    \/ Stop

CtlSpec == CtlInit /\ [][CtlNext]_vars

----------------------------------------------------------------------------
(* The Controller's state transitions on their own                          *)
(*                                                                          *)
(* The cogs request Init, Blocked and the terminal states, and nothing     *)
(* else is asked of the Controller; the emit tasks that update_state        *)
(* creates run, and the timers fire.                                        *)

\* the states the cogs request here
TransStates == {"init", "blocked"} \cup TerminalStates

\* the steps of the emit tasks
TransEmits ==
    \/ EmitStart
    \/ \E outcome \in {"ok", "raises"} : EmitCall(outcome)
    \/ EmitReturn

TransNext ==
    \/ CtlTick
    \/ \E new_state \in TransStates : UpdateState(new_state)
    \/ \E w \in waits : TimerFire(w)
    \/ TransEmits

TransSpec == CtlInit /\ [][TransNext]_vars

----------------------------------------------------------------------------
(* The Controller with its check loop running, and its shutdown             *)
(*                                                                          *)
(* start() has been called.  The cogs add tasks with a timer key, refresh   *)
(* timers and report a terminal state; the timers fire; the check loop      *)
(* drains the queue; stop() may be called.  The clock is relative, as under *)
(* the check loop alone, and no sleep, timer or ready task is kept waiting  *)
(* while time passes.  The tasks' results carry no state, so the completion *)
(* callback does nothing and does not raise.                                *)

\* the timer keys the cogs use here (the "verify" timer offers tasks of a
\* category without a limit)
RunKeys == {"map", "prof"}

\* the calls the cogs make in one behaviour here
MaxRunCalls == 2

\* what an action does here
RunOutcomes == {"ok", "func_raises"}

RunInit ==
    /\ queue = <<>>
    /\ counter = [t \in Tags \cup TimerTags |-> 0]
    /\ last_execute_at = 0
    /\ locked = FALSE
    /\ running = FALSE
    /\ cycles = {}
    /\ now = MaxTime
    /\ nextId = 1
    /\ ev = Event("none", FALSE, 0, 0)
    /\ loop = [pc |-> "call", wake |-> 0, fed |-> FALSE]
    /\ ControllerInit("none")

\* a unit of time passes
RunTick ==
    /\ emitting = NoEmit
    /\ emits = <<>>
    /\ loop.pc \in {"sleep", "await", "none"}
    /\ loop.pc = "sleep" => loop.wake > now
    /\ \A f \in cycles : f.pc \in {"gap", "bias"} => f.wake > now
    /\ \A w \in waits : w.wake > now
    /\ cycles' = {[f EXCEPT !.wake = ShiftTime(@)] : f \in cycles}
    /\ last_execute_at' = ShiftTime(last_execute_at)
    /\ waits' = {[w EXCEPT !.wake = ShiftTime(@)] : w \in waits}
    /\ loop' = [loop EXCEPT !.wake = ShiftTime(@)]
    /\ ev' = Event("none", FALSE, 0, 0)
    /\ UNCHANGED <<queue, counter, locked, running, now, nextId, current_state,
                   player_state, profession, timers, fired, em_state, listeners,
                   emits, emitting, calls, requested>>

\* the steps of the check loop and of the call it awaits
RunCall == emitting = NoEmit /\ LoopCall
RunGapWake(f) == emitting = NoEmit /\ loop.pc = "await" /\ LoopGapWake(f)
RunBiasWake(f) == emitting = NoEmit /\ loop.pc = "await" /\ LoopBiasWake(f)
RunActionDone(f, outcome) ==
    emitting = NoEmit /\ loop.pc = "await" /\ LoopActionDone(f, outcome)

\* the check task has been canceled and stop() awaits it
LoopCanceled == [pc |-> "canceled", wake |-> 0, fed |-> FALSE]

\* Controller.stop, up to `await self._check_task`: the timers are canceled
\* and the check task is canceled
StopBegin ==
    /\ External
    /\ emitting = NoEmit
    /\ loop.pc \in {"call", "sleep", "await"}
    /\ SetCtl(_cancel_all_timers(Ctl))
    /\ loop' = LoopCanceled
    /\ ev' = Event("stop_begin", FALSE, 0, 0)
    /\ UNCHANGED <<now, fired, em_state, listeners, emitting, last_execute_at,
                   locked, running, cycles, nextId, profession>>

\* the check task is resumed with CancelledError at the await it was
\* suspended in: the call it awaited is abandoned with the task it held
\* (the finally of check_and_execute, the release of the lock), and
\* _check_loop breaks
CheckLoopCanceled ==
    /\ emitting = NoEmit
    /\ loop = LoopCanceled
    /\ cycles' = {}
    /\ locked' = FALSE
    /\ running' = FALSE
    /\ loop' = LoopEnded
    /\ ev' = Event("canceled", FALSE, Cardinality(cycles), 0)
    /\ UNCHANGED <<queue, counter, last_execute_at, now, nextId, ctlvars>>

\* Controller.stop, after the await: self._check_task = None and
\* task_manager.clear(); ev.n is the number of tasks cleared
StopEnd ==
    /\ emitting = NoEmit
    /\ loop = LoopEnded
    /\ loop' = NoLoop
    /\ queue' = <<>>
    /\ counter' = clear_counter(counter)
    /\ ev' = Event("stop", FALSE, Len(queue), 0)
    /\ UNCHANGED <<last_execute_at, locked, running, cycles, now, nextId, ctlvars>>

\* the steps of the check task: the loop and the call it awaits
RunLoopSteps ==
    \/ RunCall
    \/ \E f \in cycles : RunGapWake(f)
    \/ \E f \in cycles : RunBiasWake(f)
    \/ \E f \in cycles, o \in RunOutcomes : RunActionDone(f, o)
    \/ CheckLoopCanceled

\* the steps of the other tasks the event loop has ready or due: the
\* timers, the pending emits and the stop() that waits
RunSteps ==
    \/ \E w \in waits : TimerFire(w)
    \/ EmitStart
    \/ \E outcome \in {"ok", "raises"} : EmitCall(outcome)
    \/ EmitReturn
    \/ StopEnd

\* one of the other tasks is ready or due: the condition under which
\* RunSteps can be taken
RunReady ==
    \/ emitting # NoEmit
    \/ emits # <<>>
    \/ \E w \in waits : now >= w.wake
    \/ loop = LoopEnded

RunNext ==
    \/ RunTick
    \/ RunLoopSteps
    \/ RunSteps
    \/ \E new_state \in TerminalStates : calls < MaxRunCalls /\ UpdateState(new_state)
    \/ \E key \in RunKeys : calls < MaxRunCalls /\ ControllerAddTask(key)
    \/ \E key \in RunKeys : calls < MaxRunCalls /\ RefreshTimer(key)
    \/ calls < MaxRunCalls /\ StopBegin

\* Every task that is ready or due runs, every action returns or raises,
\* and time goes on; the calls of the cogs are not forced.
RunSpec ==
    /\ RunInit
    /\ [][RunNext]_vars
    /\ WF_vars(RunTick)
    /\ WF_vars(RunLoopSteps)
    /\ ([]<>(~RunReady) \/ []<><<RunSteps>>_vars)

----------------------------------------------------------------------------
(* Properties *)

\* the tasks a cycle holds (popped, not yet finished)
HeldIds == {f.task.id : f \in cycles}

\* a step of check_and_execute that ran the selection loop
IsCycleStart == ev'.op \in {"select", "empty"}

\* C1: in every reachable state the counter of each category equals the
\* number of tasks of that category in the pending queue.
C1_CounterMatchesQueue == \A tag \in Tags : counter[tag] = CountTag(queue, tag)

\* a cycle has discarded an expired task, popped another and left a third
C1_Witness == ev.op = "select" /\ ev.n >= 1 /\ Len(queue) >= 1

\* C2: add_task of a category that has limit(category) tasks pending returns
\* False and changes neither the queue nor any counter; otherwise it returns
\* True, appends the task and increments that category's counter alone.
C2_AdmissionCeiling ==
    [][ev'.op = "add" =>
         \A tag \in Tags : \A expire_at \in ExpireTimes(tag) :
            AddTask(tag, expire_at) =>
              IF CountTag(queue, tag) >= get_task_limit(tag)
              THEN /\ ev'.ret = FALSE
                   /\ queue' = queue
                   /\ counter' = counter
              ELSE /\ ev'.ret = TRUE
                   /\ queue' = Append(queue, NewTask(nextId, tag, expire_at))
                   /\ counter' = [counter EXCEPT ![tag] = @ + 1]]_vars

\* a third Inventory task (limit 2) has just been rejected
C2_Witness == ev.op = "add" /\ ~ev.ret /\ CountTag(queue, "Inventory") = 2

\* C3: at most one cycle is in progress, and a call of check_and_execute made
\* while one is suspended returns at once and changes nothing of the
\* scheduler.
C3_MutualExclusion ==
    /\ [](Cardinality(cycles) <= 1 /\ (locked <=> cycles # {}))
    /\ [][(cycles # {} /\ CheckAndExecute) =>
            UNCHANGED <<queue, counter, last_execute_at, locked, running, cycles>>]_vars

\* a call has just returned while a cycle is suspended in its pacing wait
C3_Witness == ev.op = "busy" /\ \E f \in cycles : f.pc = "gap"

\* the positions of the queue whose task a step removed from it
Popped == {i \in DOMAIN queue : queue[i].id \notin QueueIds(queue')}

\* C4: the task a cycle selects for dispatch has the minimum rank among the
\* tasks that were pending at the selection and that the cycle did not
\* discard, in whichever order they were enqueued.
C4_PriorityOrder ==
    [][(IsCycleStart /\ cycles = {}) =>
         \A f \in cycles' :
           /\ f.task.id \in QueueIds(queue)
           /\ \A i, j \in DOMAIN queue :
                (queue[i].id = f.task.id /\ queue[j].id \in QueueIds(queue'))
                  => queue[i].rank <= queue[j].rank]_vars

\* the selected task was enqueued after a task of higher rank that is still
\* pending
C4_Witness ==
    \E f \in cycles, i \in DOMAIN queue :
        f.task.id > queue[i].id /\ f.task.rank < queue[i].rank

\* C5: a task whose expire_at is earlier than the current time when a cycle
\* pops it is not handed to a dispatch; the queue shrinks by the tasks popped
\* and each counter by the popped tasks of its category; and a task enters
\* the queue only as a fresh task or as the retry of the task whose action
\* has just finished, so a discarded task never comes back.
C5_ExpiredNeverDispatched ==
    /\ [][IsCycleStart =>
            /\ \A i \in Popped :
                  queue[i].expire_at < now => queue[i].id \notin {f.task.id : f \in cycles'}
            /\ Len(queue') = Len(queue) - Cardinality(Popped)
            /\ \A tag \in Tags :
                  counter'[tag] =
                     counter[tag] - Cardinality({i \in Popped : queue[i].tag = tag})]_vars
    /\ [][\A id \in QueueIds(queue') \ QueueIds(queue) :
            \/ id = nextId
            \/ \E f \in cycles \ cycles' : f.pc = "action" /\ f.task.id = id]_vars

\* a cycle has just discarded a task that was expired at the current time
\* (and not by the projected time: nothing has been executed yet)
C5_Witness == ev.op = "empty" /\ ev.n = 1 /\ now > Soon /\ last_execute_at = 0

\* the frames whose task's func a step has just invoked
Invoked == {f \in cycles' : f.pc = "action" /\ f \notin cycles}

\* the frames whose action a step has just finished
Finished == {f \in cycles : f.pc = "action" /\ f \notin cycles'}

\* C6: no task's func is invoked at a time later than the task's expire_at.
C6_NeverInvokedAfterExpiry ==
    [][\A f \in Invoked : now' <= f.task.expire_at]_vars

\* C7: a task whose action fails is re-admitted while its retry count is
\* below the maximum and its category has room, and is dropped when the
\* count has reached it, which is after exactly RetryCount + 1 invocations;
\* no task is ever invoked more often.
C7_RetryBound ==
    /\ [](/\ \A i \in DOMAIN queue :
               queue[i].calls = queue[i].retry /\ queue[i].retry <= RetryCount
          /\ \A f \in cycles :
               /\ f.task.retry <= RetryCount
               /\ f.task.calls = f.task.retry + (IF f.pc = "action" THEN 1 ELSE 0))
    /\ [][ev'.op = "func_raises" =>
            \A f \in Finished :
              IF f.task.retry < RetryCount
              THEN counter[f.task.tag] < get_task_limit(f.task.tag) =>
                      /\ Len(queue') = Len(queue) + 1
                      /\ queue'[Len(queue')] = [f.task EXCEPT !.retry = @ + 1]
              ELSE /\ f.task.calls = RetryCount + 1
                   /\ f.task.id \notin QueueIds(queue')
                   /\ queue' = queue]_vars

\* the only task ever created has failed RetryCount + 1 times (nothing ever
\* succeeded) and is gone
C7_Witness ==
    /\ ev.op = "func_raises" /\ ev.n = RetryCount + 1 /\ ~ev.ret
    /\ nextId = 2 /\ last_execute_at = 0 /\ queue = <<>> /\ cycles = {}

\* C8: when the action succeeds and the completion callback raises, the task
\* is not treated as failed: it is not re-enqueued (the queue and the
\* counters are as they were).
C8_CallbackFailureIsolated ==
    [][ev'.op = "callback_raises" => queue' = queue /\ counter' = counter]_vars

\* C9 as stated: a task that stays in the queue across a cycle has its rank
\* decreased by exactly one, also when the cycle discards expired tasks.
C9_AgingOnePerCycle ==
    [][IsCycleStart =>
         \A i \in DOMAIN queue, j \in DOMAIN queue' :
            queue[i].id = queue'[j].id => queue'[j].rank = queue[i].rank - 1]_vars

\* C9 amended: a task that stays in the queue across a cycle has its rank
\* decreased by exactly the number of tasks the cycle popped (those it
\* discarded, plus the one it selected for dispatch if any), hence by exactly
\* one in a cycle that discards nothing; no other step changes the rank of a
\* task that stays in the queue.
C9_AgingOnePerPop ==
    [][\A i \in DOMAIN queue, j \in DOMAIN queue' :
         queue[i].id = queue'[j].id =>
            queue'[j].rank =
               queue[i].rank - (IF IsCycleStart THEN Cardinality(Popped) ELSE 0)]_vars

\* a cycle has discarded a task, selected another and left a third, which
\* has been aged twice
C9_Witness ==
    /\ ev.op = "select" /\ ev.n = 1
    /\ \E i \in DOMAIN queue : queue[i].rank = get_default_rank(queue[i].tag) - 2

\* C10: whenever _last_execute_at changes, it grows by at least TaskGap.
C10_PacingFloor ==
    [][last_execute_at' # last_execute_at =>
         last_execute_at' - last_execute_at >= TaskGap]_vars

\* a second successful dispatch, exactly TaskGap after the first
C10_Witness ==
    ev.op = "ok" /\ ev.d = TaskGap /\ last_execute_at - ev.d >= StartTime

\* C12: a call to check_and_execute invokes the action of at most one task:
\* a step invokes at most one action; a call that waits (gap or jitter)
\* keeps the one task it popped until it invokes it; and once a call has
\* invoked an action, the only thing it still does is return.
C12_OneTaskPerCall ==
    [][/\ Cardinality(Invoked) <= 1
       /\ \A f \in cycles :
            IF f.pc = "action"
            THEN cycles' = cycles \/ cycles' = cycles \ {f}
            ELSE \/ f \in cycles'
                 \/ \E g \in cycles' \ cycles :
                       /\ g.task.id = f.task.id
                       /\ cycles' = (cycles \ {f}) \cup {g}
       /\ IsCycleStart =>
            Cardinality({i \in Popped : queue[i].id \in {g.task.id : g \in cycles'}}) <= 1]_vars

\* a call has discarded an expired task and invoked the action of another
\* while a third is still pending
C12_Witness ==
    /\ ev.op = "select" /\ ev.n >= 1 /\ Len(queue) >= 1
    /\ \E f \in cycles : f.pc = "action" /\ f.task.calls = 1

\* C18: clear() leaves the queue empty and every counter at zero, and an
\* add_task that follows it is admitted, whichever its category.
C18_ClearResets ==
    [][/\ ev'.op = "clear" =>
            /\ queue' = <<>>
            /\ \A tag \in Tags : counter'[tag] = 0
            /\ \A tag \in Tags : \A expire_at \in ExpireTimes(tag) :
                  add_task(queue', counter', NewTask(nextId', tag, expire_at)).ret
       /\ (ev.op = "clear" /\ ev'.op = "add") => ev'.ret]_vars

\* clear() has dropped a queue in which a category was at its limit
C18_Witness ==
    /\ ev.op = "clear" /\ ev.n >= 2
    /\ queue = <<>> /\ \A tag \in Tags : counter[tag] = 0

\* the positions of the queue that hold a task of category c
TagPositions(q, c) == {i \in DOMAIN q : q[i].tag = c}

\* C19: remove_by_type(c) removes exactly the pending tasks of category c,
\* returns their number and sets c's counter to zero; the pending tasks of
\* the other categories stay, in the same order and unchanged, and so do the
\* other counters.
C19_RemoveByTypeFrame ==
    [][ev'.op = "remove" =>
         \A c \in Tags :
            RemoveByType(c) =>
              /\ TagPositions(queue', c) = {}
              /\ ev'.n = Cardinality(TagPositions(queue, c))
              /\ Len(queue') = Len(queue) - Cardinality(TagPositions(queue, c))
              /\ \A i \in DOMAIN queue \ TagPositions(queue, c) :
                    queue'[i - Cardinality({j \in TagPositions(queue, c) : j < i})] = queue[i]
              /\ counter'[c] = 0
              /\ \A tag \in Tags \ {c} : counter'[tag] = counter[tag]]_vars

\* remove_by_type has removed two tasks and kept one of another category
C19_Witness == ev.op = "remove" /\ ev.n = 2 /\ Len(queue) = 1

C17_NoStarvation ==
    \A id \in 1..MaxLive : (id \in QueueIds(queue)) ~> (id \notin QueueIds(queue))

\* a call holds a task that waited through two pops of fresh tasks of lower
\* rank, selected ahead of a fresh task whose rank is not higher than its own
C17_Witness ==
    \E f \in cycles, i \in DOMAIN queue :
        /\ f.task.tag = "NewBattle" /\ f.task.rank = get_default_rank("NewBattle") - 3
        /\ queue[i].tag = "Inventory" /\ queue[i].rank = get_default_rank("Inventory")

\* C13: a call of update_state with the state that is already the
\* Controller's current state changes nothing: neither the Controller's
\* state, the player's state, the timers, the queue nor the event manager,
\* and no emit is scheduled or started, so no handler runs again.
C13_SameStateNoOp ==
    [][(ev'.op = "update_state" /\ ev'.ret) =>
          UNCHANGED <<current_state, player_state, timers, waits, fired, em_state,
                      listeners, emits, emitting, queue, counter>>]_vars

\* update_state(RUNNING) was called while the state was RUNNING with timers
\* in flight and no emit pending
C13_Witness ==
    /\ ev.op = "update_state"
    /\ ev.ret
    /\ current_state = "running"
    /\ waits # {}
    /\ emits = <<>>

\* the waits in flight for a key
WaitsOf(ws, key) == {w \in ws : w.key = key}

\* C14: refresh_timer(key) leaves exactly one wait in flight for the key,
\* the one the table records, and it ends a full interval after the
\* refresh; a wait that fires is the one the table records (a canceled
\* wait never fires), and a key never fires twice within one interval.
C14_RefreshRestarts ==
    [][/\ \A key \in Keys : (ev'.op = "refresh" /\ ev'.n = KeyIndex(key)) =>
             /\ Cardinality(WaitsOf(waits', key)) = 1
             /\ \A w \in WaitsOf(waits', key) :
                    w.id = timers'[key] /\ w.wake = now + TimerInterval
       /\ \A key \in Keys : (ev'.op = "fire" /\ ev'.n = KeyIndex(key)) =>
             /\ \E w \in WaitsOf(waits, key) : w.id = timers[key] /\ w.wake <= now
             /\ fired[key] = 0 \/ now - fired[key] >= TimerInterval]_vars

\* the "map" timer fires a second time, a full interval after the firing
\* that queued the $map task
C14_TwiceFired ==
    /\ ev.op = "fire"
    /\ ev.n = KeyIndex("map")
    /\ fired["map"] = CtlStartTime + 2 * TimerInterval
    /\ \E i \in 1..Len(queue) :
          /\ queue[i].tag = "NewBattleWindow"
          /\ queue[i].expire_at = CtlStartTime + TimerInterval + RepeatWindow

\* the "map" timer is refreshed one unit after it fired: the wait that
\* firing started is replaced by one that ends a full interval from now
C14_Witness ==
    /\ ev.op = "refresh"
    /\ ev.n = KeyIndex("map")
    /\ fired["map"] > 0
    /\ now - fired["map"] < TimerInterval
    /\ \E w \in waits : w.key = "map" /\ w.wake = now + TimerInterval

\* C15: in every reachable state each key has at most one timer wait in
\* flight, and every wait in flight is the task the timer table records
\* for its key, whatever the interleaving of add_task with a timer key,
\* refresh_timer, firings, state handlers and the cancel of all timers.
C15_OneWaitPerKey ==
    /\ \A key \in Keys : Cardinality(WaitsOf(waits, key)) <= 1
    /\ \A w \in waits : timers[w.key] = w.id

\* the three timers are in flight, each recorded in the table, after the
\* "map" timer has fired and been started again
C15_Witness ==
    /\ \A key \in Keys : \E w \in WaitsOf(waits, key) : timers[key] = w.id
    /\ fired["map"] > 0
    /\ ev.op \in {"add", "refresh", "fire"}

\* C16: emit(state) never raises to its caller; when it returns it has
\* recorded the state as the event manager's current state and has called
\* the callbacks registered for that state, each once and in the order of
\* their registration, also when one of them raised; it has called no
\* callback registered for another state.
C16_EmitCallsAll ==
    [][/\ ev'.op # "emit_raised"
       /\ ev'.op = "emit" =>
             /\ em_state = emitting.state
             /\ emitting.log = listeners[emitting.state]
             /\ \A i \in 1..Len(emitting.log) : emitting.log[i][1] = emitting.state]_vars

\* an emit has returned after calling three callbacks, the second of which
\* raised
C16_Witness ==
    /\ ev.op = "emit"
    /\ ev.n = 3
    /\ ev.d = 2

\* the state right after emit(INIT) has called _on_init
InitHandlerDone ==
    /\ ev.op = "callback"
    /\ ev.n = 1
    /\ emitting.state = "init"
    /\ emitting.i = 2

\* C20: when the Init handler has run, the Controller's state is Running,
\* the "map" timer is in flight and, when a profession is configured, the
\* "prof" timer is in flight.
C20_InitStartsTimers ==
    InitHandlerDone =>
        /\ current_state = "running"
        /\ \E w \in WaitsOf(waits, "map") : timers["map"] = w.id /\ w.wake = now + TimerInterval
        /\ profession # "none" =>
              \E w \in WaitsOf(waits, "prof") : timers["prof"] = w.id /\ w.wake = now + TimerInterval

\* _on_init has run with a profession configured: the emit of RUNNING is
\* scheduled and both timers are in flight
C20_Witness ==
    /\ InitHandlerDone
    /\ profession = "mine"
    /\ current_state = "running"
    /\ player_state = "running"
    /\ emits # <<>>
    /\ WaitsOf(waits, "map") # {}
    /\ WaitsOf(waits, "prof") # {}

\* the task at position i of the queue expires before the projected time
\* last + gap + bias / 2 (compared doubled)
ExpiredByProjection(i) ==
    2 * queue[i].expire_at < 2 * last_execute_at + 2 * TaskGap + TaskBias

\* C27: a task a cycle pops whose expire_at is earlier than
\* _last_execute_at + gap + bias / 2 is discarded: no call holds it, so its
\* action is not invoked, and it is not put back; the same cycle goes on to
\* select, and ends with a task in hand or with the queue empty.  A task
\* whose expire_at is neither earlier than the current time nor earlier
\* than the projected time is not discarded: it stays pending or is the
\* task the cycle holds.
C27_ProjectedExpiry ==
    [][IsCycleStart =>
         /\ \A i \in Popped :
               ExpiredByProjection(i) =>
                  /\ queue[i].id \notin {f.task.id : f \in cycles'}
                  /\ queue[i].id \notin QueueIds(queue')
         /\ (\E i \in Popped : ExpiredByProjection(i)) =>
               (ev'.op = "select" /\ cycles' # cycles) \/ queue' = <<>>
         /\ \A i \in DOMAIN queue :
               (queue[i].expire_at >= now /\ ~ExpiredByProjection(i)) =>
                  queue[i].id \in QueueIds(queue') \cup {f.task.id : f \in cycles'}]_vars

\* a cycle has discarded a task that was not expired at the current time
\* (the clock has not passed Soon) but was by the projected time, and has
\* gone on to select another task
C27_Witness ==
    /\ ev.op = "select"
    /\ ev.n = 1
    /\ now <= Soon
    /\ last_execute_at >= StartTime
    /\ cycles # {}

\* C28: when the action of a task that has retries left fails while its
\* category holds as many pending tasks as its limit allows, the
\* re-admission is refused: the queue and the counters stay as they are and
\* the task is neither pending nor held by a call; a task only ever enters
\* the queue as a fresh task or as the retry of the task whose action has
\* just finished, so the dropped task is never dispatched again.
C28_RetryRechecksLimit ==
    /\ [][ev'.op \in {"func_raises", "callback_raises"} =>
            \A f \in Finished :
               (f.task.retry < RetryCount
                  /\ CountTag(queue, f.task.tag) >= get_task_limit(f.task.tag)) =>
                  /\ ~ev'.ret
                  /\ queue' = queue
                  /\ counter' = counter
                  /\ f.task.id \notin QueueIds(queue') \cup {g.task.id : g \in cycles'}]_vars
    /\ [][\A id \in (QueueIds(queue') \cup {g.task.id : g \in cycles'})
                      \ (QueueIds(queue) \cup HeldIds) : id = nextId]_vars

\* the first invocation of a NewBattle task (limit 1) has failed after
\* another NewBattle task was admitted: the retry has been refused
C28_Witness ==
    /\ ev.op = "func_raises"
    /\ ev.n = 1
    /\ ~ev.ret
    /\ CountTag(queue, "NewBattle") = 1
    /\ cycles = {}

\* the task at position i of the queue passes both expiry tests of a cycle
\* that starts now
Valid(i) == queue[i].expire_at >= now /\ ~ExpiredByProjection(i)

\* C29: a cycle that starts with a pending task that is expired neither at
\* the current time nor by the projected time ends with exactly one such
\* task in hand, and every task it discarded on the way is an expired one,
\* among them every pending task of lower rank than the one selected; a
\* cycle ends with no task in hand only when it has left the queue empty.
C29_DiscardContinues ==
    [][(IsCycleStart /\ cycles = {}) =>
         /\ (\E i \in DOMAIN queue : Valid(i)) =>
               /\ ev'.op = "select"
               /\ Cardinality(cycles') = 1
               /\ \A f \in cycles' : \E i \in Popped :
                     /\ queue[i].id = f.task.id
                     /\ Valid(i)
                     /\ \A j \in Popped \ {i} : ~Valid(j)
                     /\ \A j \in DOMAIN queue :
                           queue[j].rank < queue[i].rank => (j \in Popped /\ ~Valid(j))
         /\ ev'.op = "empty" => (queue' = <<>> /\ cycles' = {})]_vars

\* a cycle has discarded two expired tasks and selected the third, which
\* was enqueued with a higher rank
C29_Witness ==
    /\ ev.op = "select"
    /\ ev.n = 2
    /\ \E f \in cycles : f.task.tag = "NewBattle"

\* the state right after emit has called the Controller's handler of one
\* of the given states
HandlerDone(states) ==
    /\ ev.op = "callback"
    /\ ev.n = 1
    /\ emitting.state \in states
    /\ emitting.i = 2

\* C21: when the handler of Defeated, Banned or Stopped has run, the timer
\* table is empty and no timer wait is in flight: every timer started
\* before has been canceled, so none of them can fire and enqueue a task.
C21_TerminalCancelsTimers ==
    HandlerDone(TerminalStates) =>
        /\ \A key \in Keys : timers[key] = 0
        /\ waits = {}

\* the Defeated handler has just ended two timer waits, after the "map"
\* timer had fired
C21_Witness ==
    /\ HandlerDone({"defeated"})
    /\ ev.d >= 2
    /\ fired["map"] > 0
    /\ waits = {}

\* C23: the Blocked handler starts the "verify" timer only: when it has run
\* exactly one "verify" wait is in flight, recorded in the table and due a
\* full interval later, and the table entries and the waits of "map" and
\* "prof" are what they were before it ran.
C23_BlockedStartsVerifyOnly ==
    [][(ev'.op = "callback" /\ ev'.n = 1 /\ emitting.state = "blocked") =>
          /\ \A key \in {"map", "prof"} :
                /\ timers'[key] = timers[key]
                /\ WaitsOf(waits', key) = WaitsOf(waits, key)
          /\ Cardinality(WaitsOf(waits', "verify")) = 1
          /\ \A w \in WaitsOf(waits', "verify") :
                w.id = timers'["verify"] /\ w.wake = now + TimerInterval]_vars

\* the Blocked handler has run while a "map" wait started earlier is in
\* flight: that wait is still due at its old time
C23_Witness ==
    /\ HandlerDone({"blocked"})
    /\ \E w \in WaitsOf(waits, "map") : w.id = timers["map"] /\ w.wake < now + TimerInterval
    /\ \E w \in WaitsOf(waits, "verify") : w.wake = now + TimerInterval

\* C24: on task completion with a result that carries a state other than
\* the Controller's current state, the current state becomes that state and
\* one emit of it is started in place (none is scheduled besides); with a
\* result that carries the current state, no state, or that is not a dict,
\* nothing of the Controller or the event manager changes.
C24_CompletionSignal ==
    [][\A result \in Results : TaskCompleteCallback(result) =>
          IF result \in BotStates /\ result # current_state
          THEN /\ current_state' = result
               /\ em_state' = result
               /\ emitting' = [state |-> result, i |-> 1, log |-> <<>>, raised |-> 0]
               /\ emits' = emits
          ELSE UNCHANGED <<current_state, player_state, timers, waits, fired, em_state,
                           listeners, emits, emitting, queue, counter>>]_vars

\* a completed task has moved the Controller from Running to Blocked: the
\* emit of Blocked has started and the player's state is left as it was
C24_Witness ==
    /\ ev.op = "task_complete"
    /\ ev.ret
    /\ current_state = "blocked"
    /\ emitting.state = "blocked"
    /\ emitting.i = 1
    /\ player_state = "running"

\* the category of the task a key's timer offers
KeyTag(key) ==
    CASE key = "map" -> "NewBattleWindow"
      [] key = "prof" -> "NewProfessionWindow"
      [] key = "verify" -> "Verify"

\* what the firing of a key's timer does when its recursion runs: it offers
\* one fresh task of the key's category, which is appended when the
\* category has room and leaves the queue and counters alone when not, and
\* in both cases exactly one wait of the key, the table's, is then in
\* flight, due a full interval later
OffersAndReschedules(key) ==
    /\ IF CountTag(queue, KeyTag(key)) < get_task_limit(KeyTag(key))
       THEN /\ Len(queue') = Len(queue) + 1
            /\ SubSeq(queue', 1, Len(queue)) = queue
            /\ queue'[Len(queue')].tag = KeyTag(key)
            /\ queue'[Len(queue')].expire_at = now + RepeatWindow
            /\ queue'[Len(queue')].retry = 0
            /\ counter' = [counter EXCEPT ![KeyTag(key)] = @ + 1]
       ELSE queue' = queue /\ counter' = counter
    /\ Cardinality(WaitsOf(waits', key)) = 1
    /\ \A w \in WaitsOf(waits', key) :
          w.id = timers'[key] /\ w.wake = now + TimerInterval

\* C30 as stated: whenever the timer of a key fires it offers a fresh
\* repeating task and reschedules itself, admitted or not.
C30_FireOffersAndReschedules ==
    [][\A key \in Keys :
          (ev'.op = "fire" /\ ev'.n = KeyIndex(key)) => OffersAndReschedules(key)]_vars

\* C30 amended: the timers of "map" and "verify", and the timer of "prof"
\* when a profession is configured, offer a fresh repeating task and
\* reschedule themselves, admitted or not; the "prof" timer with no
\* profession configured offers nothing and starts no wait, and leaves its
\* finished task in the table.
C30_FireReschedulesUnlessNoProfession ==
    [][\A key \in Keys :
          (ev'.op = "fire" /\ ev'.n = KeyIndex(key)) =>
             IF key = "prof" /\ profession = "none"
             THEN /\ queue' = queue
                  /\ counter' = counter
                  /\ timers' = timers
                  /\ WaitsOf(waits', "prof") = {}
             ELSE OffersAndReschedules(key)]_vars

\* the "map" timer has fired while the $map task of an earlier firing was
\* still pending: the new task was refused and the timer is in flight again
C30_Witness ==
    /\ ev.op = "fire"
    /\ ev.n = KeyIndex("map")
    /\ CountTag(queue, "NewBattleWindow") = 1
    /\ \E i \in DOMAIN queue :
          queue[i].tag = "NewBattleWindow" /\ queue[i].expire_at < now + RepeatWindow
    /\ \E w \in WaitsOf(waits, "map") : w.wake = now + TimerInterval

\* C25: a failure inside a call of the check loop does not end the loop:
\* the loop is always at its call, in its sleep or awaiting the call, and
\* after every failing func and every failing completion callback the loop
\* starts another cycle.
C25_LoopSurvivesFailure ==
    /\ [](loop.pc \in {"call", "sleep", "await"})
    /\ (ev.op \in {"func_raises", "callback_raises"}) ~> (ev.op \in {"select", "empty"})

\* a later cycle of the loop has selected the task whose action had failed
\* and that was re-enqueued
C25_Witness ==
    /\ ev.op = "select"
    /\ loop.pc = "await"
    /\ \E f \in cycles : f.task.retry >= 1

\* the check loop exists and has not been canceled
LoopAlive == loop.pc \in {"call", "sleep", "await"}

\* C22: the handler of Defeated, Banned or Stopped leaves the pending
\* queue, its counters, the check loop and the call it awaits as they are,
\* and the loop keeps draining: while it runs, every task pending in such a
\* state is popped by a later cycle (the queue loses it otherwise only when
\* stop() clears it).
C22_TerminalKeepsDraining ==
    /\ [][(ev'.op = "callback" /\ ev'.n = 1 /\ emitting.state \in TerminalStates) =>
             UNCHANGED <<queue, counter, loop, cycles, locked, running, last_execute_at>>]_vars
    /\ \A id \in 1..3 :
          (id \in QueueIds(queue) /\ current_state \in TerminalStates /\ LoopAlive)
             ~> (id \notin QueueIds(queue) \/ ~LoopAlive)

\* a task queued by add_task with a timer key was pending when a terminal
\* handler ran (the handler has ended the timer wait the call had started,
\* and no timer has fired), and the loop has just popped it for the first
\* time
C22_Witness ==
    /\ current_state \in TerminalStates
    /\ emitting = NoEmit
    /\ emits = <<>>
    /\ waits = {}
    /\ \A key \in Keys : fired[key] = 0
    /\ LoopAlive
    /\ ev.op = "select"
    /\ \E f \in cycles : f.task.tag = "NewBattle" /\ f.task.retry = 0

\* C26 as stated: when stop() returns, the check loop has ended, no timer
\* wait is in flight and the pending queue is empty.
C26_StopLeavesNothing ==
    ev.op = "stop" =>
        /\ loop = NoLoop
        /\ cycles = {}
        /\ queue = <<>>
        /\ waits = {}
        /\ \A key \in Keys : timers[key] = 0

\* C31: a task's rank changes only in a selection step (sort, aging, pop)
\* and only by the aging of the tasks resident in the queue: a task held by
\* a cycle keeps its rank through the pacing wait, the jitter wait and the
\* action, and the retry path re-admits it with the rank it was popped with.
C31_RankChangesOnlyByAging ==
    [][/\ \A f \in cycles : \A g \in cycles' :
             g.task.id = f.task.id => g.task.rank = f.task.rank
       /\ \A f \in cycles : \A j \in DOMAIN queue' :
             queue'[j].id = f.task.id => queue'[j].rank = f.task.rank
       /\ \A i \in DOMAIN queue : \A j \in DOMAIN queue' :
             (queue'[j].id = queue[i].id /\ queue'[j].rank # queue[i].rank) =>
                 /\ ev'.op \in {"select", "empty"}
                 /\ queue'[j].rank < queue[i].rank]_vars

\* a task that was aged once before its pop has failed and is pending
\* again, with the rank it was popped with
C31_Witness ==
    /\ ev.op = "func_raises"
    /\ ev.ret
    /\ \E i \in DOMAIN queue :
          /\ queue[i].retry = 1
          /\ queue[i].rank = get_default_rank(queue[i].tag) - 1

\* the Task objects the scheduler refers to: pending, or held by a cycle
PendingTasks == {queue[i] : i \in DOMAIN queue}
HeldTasks == {f.task : f \in cycles}

\* C32: under any interleaving of add_task, cycles, clear and
\* remove_by_type, every task's retry count lies between 0 and RetryCount
\* and its func has been invoked at most RetryCount + 1 times; the count
\* goes up by exactly one when a failed dispatch puts the task back into
\* the queue and is unchanged by every other step.
C32_RetryCountsFailures ==
    /\ [](\A t \in PendingTasks \cup HeldTasks :
             /\ 0 <= t.retry
             /\ t.retry <= RetryCount
             /\ t.calls <= RetryCount + 1)
    /\ [][\A t \in PendingTasks \cup HeldTasks :
             \A u \in {queue'[j] : j \in DOMAIN queue'} \cup {f.task : f \in cycles'} :
                u.id = t.id =>
                   IF t \in HeldTasks /\ u.id \in QueueIds(queue')
                   THEN /\ ev'.op \in {"func_raises", "callback_raises"}
                        /\ u.retry = t.retry + 1
                   ELSE u.retry = t.retry]_vars

\* the queue has been cleared while a cycle holds a task in its last
\* attempt
C32_Witness ==
    /\ ev.op = "clear"
    /\ \E f \in cycles :
          f.pc = "action" /\ f.task.retry = RetryCount /\ f.task.calls = RetryCount + 1

\* C33: is_running is true exactly while a call holds the lock, which is
\* exactly while a cycle is in progress; when a cycle ends, by the return
\* after the action or its failure, by finding no valid task, or by
\* cancellation in a wait or in the action, is_running is false and the lock
\* is free; and a call is refused only while a cycle is in progress.
C33_RunningIffLocked ==
    /\ []((running <=> locked) /\ (running <=> cycles # {}))
    /\ [][((cycles # {} /\ cycles' = {}) \/ ev'.op = "empty") =>
             (~running' /\ ~locked')]_vars
    /\ [][ev'.op = "busy" => cycles # {}]_vars

\* a call has been canceled while it was suspended, and the scheduler is
\* free again
C33_Witness == ev.op = "canceled" /\ cycles = {} /\ ~running /\ ~locked

\* C34: no step inverts the rank order of two tasks that are pending before
\* and after it, nor the list order of two such tasks of equal rank; a task
\* that enters the queue is placed last; and the task a cycle selects
\* precedes, in the list, every task of its own rank that stays pending.
\* So among pending tasks of equal rank the one admitted earlier is
\* selected first.
C34_StableOrder ==
    [][/\ \A i, j \in DOMAIN queue : \A k, l \in DOMAIN queue' :
             (queue'[k].id = queue[i].id /\ queue'[l].id = queue[j].id) =>
                /\ queue[i].rank < queue[j].rank => queue'[k].rank < queue'[l].rank
                /\ queue[i].rank = queue[j].rank =>
                      /\ queue'[k].rank = queue'[l].rank
                      /\ i < j => k < l
       /\ \A l \in DOMAIN queue' :
             queue'[l].id \notin QueueIds(queue) => l = Len(queue')
       /\ (IsCycleStart /\ cycles = {}) =>
             \A f \in cycles' : \A i, j \in DOMAIN queue :
                (/\ queue[i].id = f.task.id
                 /\ queue[j].id \in QueueIds(queue')
                 /\ queue[j].rank = queue[i].rank) => i < j]_vars

\* a cycle has selected a NewBattle task that aging had brought down to the
\* rank of an Inventory task admitted after it, which is still pending
C34_Witness ==
    /\ ev.op = "select"
    /\ \E f \in cycles, i \in DOMAIN queue :
          /\ f.task.tag = "NewBattle"
          /\ queue[i].tag = "Inventory"
          /\ queue[i].rank = f.task.rank
          /\ queue[i].id > f.task.id

\* C35: clear() and remove_by_type() remove pending tasks only: the calls
\* in progress, the tasks they hold, the lock and _last_execute_at are as
\* before, and nothing enters the queue.  A failure that directly follows
\* a clear(), of a task with retries left, makes that task the only pending
\* one.
C35_ClearSparesHeldTasks ==
    /\ [][ev'.op \in {"clear", "remove"} =>
             /\ UNCHANGED <<cycles, locked, running, last_execute_at>>
             /\ QueueIds(queue') \subseteq QueueIds(queue)]_vars
    /\ [][(ev.op = "clear" /\ ev'.op \in {"func_raises", "callback_raises"}) =>
             \A f \in Finished :
                f.task.retry < RetryCount =>
                   /\ queue' = <<[f.task EXCEPT !.retry = @ + 1]>>
                   /\ counter'[f.task.tag] = 1]_vars

\* clear() has just dropped pending tasks while a cycle, suspended in its
\* pacing wait, holds a task that has retries left
C35_Witness ==
    /\ ev.op = "clear"
    /\ ev.n >= 1
    /\ \E f \in cycles : f.pc \in {"gap", "bias"} /\ f.task.retry < RetryCount

\* C36 as stated: whenever the Controller's current state is set,
\* Player.state names the same state.
C36_PlayerStateFollows == current_state # "none" => player_state = current_state

\* C37 as stated: once every emit scheduled by update_state or run by the
\* completion callback has finished, the state recorded by the
\* BotEventManager is the Controller's current state.
C37_EmittedStateIsCurrent ==
    (emits = <<>> /\ emitting = NoEmit /\ current_state # "none") =>
        em_state = current_state

\* no emit is scheduled or running
EmitsDone == emits = <<>> /\ emitting = NoEmit

\* C38 as stated: when update_state(Defeated), update_state(Banned) or
\* update_state(Stopped) is the last transition requested from outside,
\* then once all scheduled emits have run the Controller's current state is
\* that state and no timer is in flight.
C38_TerminalRequestWins ==
    (requested \in TerminalStates /\ EmitsDone) =>
        (current_state = requested /\ waits = {})

\* C39 as stated: once the transition to Running that a request of Init
\* brings about has completed (Init was requested last, the state is
\* Running and no emit is scheduled or running), no "verify" timer is in
\* flight and no timer offers a "$verify" task any more.
C39_VerifyTimerEndsWithEpisode ==
    [][(requested = "init" /\ current_state = "running" /\ EmitsDone) =>
          /\ timers["verify"] = 0
          /\ \A w \in waits : w.key # "verify"
          /\ ev'.op = "fire" => ev'.n # KeyIndex("verify")]_vars

\* C40: Controller.add_task(task, key) leaves exactly one wait in flight for
\* the key, the one the table records, ending a full interval after the call,
\* whether or not the task was admitted and whatever the bot state is; the
\* timers of the other keys and the bot state are left alone; the result is
\* true exactly when the count of the task's type was below its limit, and
\* then the queue has grown by one task, else it is unchanged.
C40_AddTaskRestartsTimer ==
    [][\A key \in Keys : (ev'.op = "add" /\ ev'.n = KeyIndex(key)) =>
          /\ Cardinality(WaitsOf(waits', key)) = 1
          /\ \A w \in WaitsOf(waits', key) :
                 w.id = timers'[key] /\ w.wake = now + TimerInterval
          /\ \A k \in Keys \ {key} :
                 timers'[k] = timers[k] /\ WaitsOf(waits', k) = WaitsOf(waits, k)
          /\ current_state' = current_state
          /\ player_state' = player_state
          /\ ev'.ret <=> CounterGet(counter, "NewBattle") < 1
          /\ IF ev'.ret THEN Len(queue') = Len(queue) + 1 /\ SubSeq(queue', 1, Len(queue)) = queue
                        ELSE queue' = queue /\ counter' = counter]_vars

\* a battle task offered with the key "map" has been refused by the limit of
\* its type while the bot was Defeated with no timer running, and the "map"
\* timer runs again
C40_Witness ==
    /\ ev.op = "add"
    /\ ev.n = KeyIndex("map")
    /\ ~ev.ret
    /\ current_state = "defeated"
    /\ emits = <<>> /\ emitting = NoEmit
    /\ timers["map"] # 0
    /\ \E w \in waits : w.key = "map" /\ w.id = timers["map"] /\ w.wake = now + TimerInterval
    /\ timers["prof"] = 0 /\ timers["verify"] = 0

====
